---------------------------- MODULE Spec2Model ----------------------------
(***************************************************************************)
(* A model of pydigree's genotype containers (pydigree/genotypes.py) and   *)
(* of the identity-by-state comparator (pydigree/ibs.py).                  *)
(*                                                                         *)
(* Marker index i of the Python code (0-based) is position i+1 of a TLA+   *)
(* sequence.  Frequencies and random draws are in hundredths.              *)
(***************************************************************************)
EXTENDS Integers, Sequences, FiniteSets, TLC

VARIABLES
    genotypes,  \* individual -> haplotype -> container (ind.genotypes[chromidx][hap])
    labelled,   \* the LabelledAlleles object the calls are made on (self)
    template,   \* the LabelledAlleles object copy_span copies from
    history,    \* the copy_span calls made on labelled since it was created
    sparse,     \* the SparseAlleles object
    dense,      \* the dense arrays given: haplotypes a, b (individual 1), c, d (individual 2)
    chrom,      \* the ChromosomeTemplate object
    last,       \* the last call made and how it ended
    result      \* the value the last call returned

vars == <<genotypes, labelled, template, history, sparse, dense, chrom, last, result>>

----------------------------------------------------------------------------
(* Bounds *)

NMark == 3
MaxSpans == 3
MaxCopies == 2
MaxLen == 2
MaxHapLen == 1
MaxMarkers == 2

----------------------------------------------------------------------------
(* Values shared by the components *)

Individuals == {"founder", "child"}
Haplotypes == {0, 1}
AlleleCodes == {0, 1, 2}

NoValue == [kind |-> "None", vals |-> <<>>, spans |-> <<>>, nmark |-> 0]

\* Alleles.__new__: a dense container
Alleles(data) ==
    [kind |-> "Alleles", vals |-> data, spans |-> <<>>, nmark |-> Len(data)]

\* LabelledAlleles.__init__ (chromobj is None, nmark given)
LabelledAlleles(spans, nmark) ==
    [kind |-> "LabelledAlleles", vals |-> <<>>, spans |-> spans, nmark |-> nmark]

InheritanceSpan(ancestor, chromosomeidx, haplotype, start, stop) ==
    [ancestor |-> ancestor, chromosomeidx |-> chromosomeidx,
     haplotype |-> haplotype, start |-> start, stop |-> stop]

\* the record of a call: its name, whether it raised, and what it was given
Call(op, err, arg) == [op |-> op, err |-> err, arg |-> arg]

NoArg == [start |-> 0, stop |-> 0, case5 |-> 0]

----------------------------------------------------------------------------
(* InheritanceSpan and LabelledAlleles *)

\* InheritanceSpan.contains: inclusive at both ends
contains(span, index) == span.start <= index /\ index <= span.stop

\* InheritanceSpan.ancestral_chromosome
ancestral_chromosome(span, g) == g[span.ancestor][span.haplotype]

\* LabelledAlleles.founder_chromosome(ind, chromidx, hap, nmark=n)
founder_chromosome(ind, chromidx, hap, n) ==
    LabelledAlleles(<<InheritanceSpan(ind, chromidx, hap, 0, n)>>, n)

\* the three tests of add_span that raise ValueError
AddSpanRaises(spans, new_span) ==
    \/ \E i \in 1..Len(spans) : new_span.stop < spans[i].stop
    \/ Len(spans) = 0 /\ new_span.start > 0
    \/ Len(spans) > 0 /\ ~(new_span.start = spans[Len(spans)].stop)

\* LabelledAlleles.add_span: the span list afterwards, and whether it raised
add_span(spans, new_span) ==
    IF AddSpanRaises(spans, new_span)
    THEN [spans |-> spans, err |-> TRUE]
    ELSE [spans |-> Append(spans, new_span), err |-> FALSE]

\* SpanCase with the returning branch taken when the requested start, not
\* the requested stop, lies in the template span
SpanCaseReturnsAtStart(span, copy_start, copy_stop) ==
    IF copy_start > span.stop \/ copy_stop < span.start THEN 1
    ELSE IF copy_start = span.start /\ copy_stop = span.stop THEN 2
    ELSE IF contains(span, copy_start) /\ contains(span, copy_stop) THEN 3
    ELSE IF contains(span, copy_start) THEN 5
    ELSE IF contains(span, copy_stop) THEN 4
    ELSE IF span.start > copy_start /\ span.stop < copy_stop THEN 6
    ELSE 7

\* the branch of copy_span's if/elif chain a template span takes:
\* 1 skip, 2 exact, 3 sub-span of the template span, 4 start inside,
\* 5 stop inside (returns), 6 template span inside ours, 7 raise
SpanCase(span, copy_start, copy_stop) ==
    IF copy_start > span.stop \/ copy_stop < span.start THEN 1
    ELSE IF copy_start = span.start /\ copy_stop = span.stop THEN 2
    ELSE IF contains(span, copy_start) /\ contains(span, copy_stop) THEN 3
    ELSE IF contains(span, copy_start) THEN 4
    ELSE IF contains(span, copy_stop) THEN 5
    ELSE IF span.start > copy_start /\ span.stop < copy_stop THEN 6
    ELSE 7

\* ClippedSpan with branch 4 not clipped to the template span's stop
ClippedSpanUnclipped(span, copy_start, copy_stop, branch) ==
    InheritanceSpan(span.ancestor, span.chromosomeidx, span.haplotype,
                    IF branch \in {2, 3, 4} THEN copy_start ELSE span.start,
                    IF branch \in {2, 3, 4, 5} THEN copy_stop ELSE span.stop)

\* the span copy_span builds from a template span in branches 2..6
ClippedSpan(span, copy_start, copy_stop, branch) ==
    InheritanceSpan(span.ancestor, span.chromosomeidx, span.haplotype,
                    IF branch \in {2, 3, 4} THEN copy_start ELSE span.start,
                    IF branch \in {2, 3, 5} THEN copy_stop ELSE span.stop)

\* the loop of copy_span from template span i on: the span list of self when
\* the loop ends, whether it raised, and the index (1-based; 0 if none) of
\* the template span at which branch 5 returned
RECURSIVE CopyLoop(_, _, _, _, _)
CopyLoop(spans, tspans, i, copy_start, copy_stop) ==
    IF i > Len(tspans) THEN [spans |-> spans, err |-> FALSE, case5 |-> 0]
    ELSE LET span == tspans[i]
             branch == SpanCase(span, copy_start, copy_stop)
             added == add_span(spans,
                               ClippedSpan(span, copy_start, copy_stop, branch))
         IN  IF branch = 1
             THEN CopyLoop(spans, tspans, i + 1, copy_start, copy_stop)
             ELSE IF branch = 7
             THEN [spans |-> spans, err |-> TRUE, case5 |-> 0]
             ELSE IF added.err
             THEN [spans |-> spans, err |-> TRUE, case5 |-> 0]
             ELSE IF branch = 5
             THEN [spans |-> added.spans, err |-> FALSE, case5 |-> i]
             ELSE CopyLoop(added.spans, tspans, i + 1, copy_start, copy_stop)

\* LabelledAlleles.copy_span(template, copy_start, copy_stop) on a self whose
\* span list is spans
labelled_copy_span(spans, tmpl, copy_start, copy_stop) ==
    IF tmpl.kind # "LabelledAlleles"
    THEN [spans |-> spans, err |-> TRUE, case5 |-> 0]
    ELSE CopyLoop(spans, tmpl.spans, 1, copy_start, copy_stop)

----------------------------------------------------------------------------
(* Alleles *)

\* a slice bound of a numpy array of n entries: negative bounds count from
\* the end, and bounds are clipped to 0..n
SliceBound(i, n) ==
    IF i < 0 THEN (IF i + n < 0 THEN 0 ELSE i + n)
    ELSE IF i > n THEN n ELSE i

\* Alleles.empty_like: zeros of the same length
alleles_empty_like(a) == Alleles([i \in 1..a.nmark |-> 0])

\* Alleles.copy_span without the last marker of the range
alleles_copy_span_short(self, tmpl, copy_start, copy_stop) ==
    LET lo == SliceBound(copy_start, self.nmark)
        hi == SliceBound(copy_stop, self.nmark)
    IN  Alleles([i \in 1..self.nmark |->
                    IF lo < i /\ i < hi THEN tmpl.vals[i] ELSE self.vals[i]])

\* Alleles.copy_span: self[copy_start:copy_stop] = template[copy_start:copy_stop]
alleles_copy_span(self, tmpl, copy_start, copy_stop) ==
    LET lo == SliceBound(copy_start, self.nmark)
        hi == SliceBound(copy_stop, self.nmark)
    IN  Alleles([i \in 1..self.nmark |->
                    IF lo < i /\ i <= hi THEN tmpl.vals[i] ELSE self.vals[i]])

----------------------------------------------------------------------------
(* delabel *)

\* pydigree.common.all_same_type(iter, t): every element of iter is a t.
\* Every element of a span list is an InheritanceSpan record.
all_same_type(spans) == \A i \in 1..Len(spans) : spans[i].stop \in Int

\* empty_like of an allele container
empty_like(c) ==
    IF c.kind = "Alleles" THEN alleles_empty_like(c)
    ELSE LabelledAlleles(<<>>, c.nmark)

\* nc.copy_span(template, start, stop) for the container nc of delabel.
\* A dense nc slices the template: slicing a LabelledAlleles raises, since no
\* span contains a slice object.
container_copy_span(nc, tmpl, start, stop) ==
    IF nc.kind = "Alleles"
    THEN IF tmpl.kind = "Alleles"
         THEN [c |-> alleles_copy_span(nc, tmpl, start, stop), err |-> FALSE]
         ELSE [c |-> nc, err |-> TRUE]
    ELSE LET r == labelled_copy_span(nc.spans, tmpl, start, stop)
         IN  [c |-> LabelledAlleles(r.spans, nc.nmark), err |-> r.err]

RECURSIVE DelabelLoop(_, _, _, _)
DelabelLoop(nc, spans, i, g) ==
    IF i > Len(spans) THEN [c |-> nc, err |-> FALSE]
    ELSE LET span == spans[i]
             r == container_copy_span(nc, ancestral_chromosome(span, g),
                                      span.start, span.stop)
         IN  IF r.err THEN [c |-> NoValue, err |-> TRUE]
             ELSE DelabelLoop(r.c, spans, i + 1, g)

\* LabelledAlleles.delabel: the container returned, or err
delabel(self, g) ==
    IF ~all_same_type(self.spans)
       /\ \E i \in 1..Len(self.spans) :
             ancestral_chromosome(self.spans[i], g).kind = "LabelledAlleles"
    THEN [c |-> NoValue, err |-> TRUE]
    ELSE IF Len(self.spans) = 0 THEN [c |-> NoValue, err |-> TRUE]
    ELSE DelabelLoop(empty_like(ancestral_chromosome(self.spans[1], g)),
                     self.spans, 1, g)

----------------------------------------------------------------------------
(* The pedigree the symbolic containers refer to *)

ChromIdx == 0

\* the allele code of a genotyped individual at marker i (1-based): under
\* "distinct" no two (individual, haplotype, marker) share a code, under
\* "diallelic" the codes are 1 and 2 with marker 1 of haplotype 1 missing (0)
DenseCode(coding, ind, hap, i) ==
    IF coding = "distinct"
    THEN (IF ind = "founder" THEN 0 ELSE 2 * NMark) + hap * NMark + i
    ELSE IF hap = 1 /\ i = 1 THEN 0
    ELSE 1 + ((i + hap + (IF ind = "founder" THEN 0 ELSE 1)) % 2)

DenseHaplotype(coding, ind, hap) ==
    Alleles([i \in 1..NMark |-> DenseCode(coding, ind, hap, i)])

\* a pedigree: the founder is genotyped; each haplotype of the child named in
\* symbolic is still a LabelledAlleles seeded from the founder
Pedigree(coding, symbolic) ==
    [ind \in Individuals |-> [hap \in Haplotypes |->
        IF ind = "child" /\ hap \in symbolic
        THEN founder_chromosome("founder", ChromIdx, hap, NMark)
        ELSE DenseHaplotype(coding, ind, hap)]]

\* the span lists that tile [0, k) with spans of positive length, each span
\* attributed to one of labels (pairs <<individual, haplotype>>)
RECURSIVE TilingsTo(_, _)
TilingsTo(k, labels) ==
    IF k = 0 THEN {<<>>}
    ELSE UNION {{Append(t, InheritanceSpan(l[1], ChromIdx, l[2], j, k)) :
                    t \in TilingsTo(j, labels), l \in labels} :
                j \in 0..(k - 1)}

\* symbolic containers of NMark markers whose spans tile a prefix of it
TiledSources(labels) ==
    {LabelledAlleles(t, NMark) :
        t \in UNION {TilingsTo(k, labels) : k \in 1..NMark}}

\* an optional argument: <<>> is None, <<v>> is the value v
CopyStops == {<<>>} \cup {<<v>> : v \in 0..NMark}

CopyStop(copy_stop, nmark) == IF copy_stop = <<>> THEN nmark ELSE copy_stop[1]

SpanInputs ==
    {InheritanceSpan("founder", ChromIdx, hap, start, stop) :
        hap \in Haplotypes,
        start \in (-1)..NMark, stop \in (-1)..NMark}

----------------------------------------------------------------------------
(* Values of the variables a component does not use *)

NoSparse == [dtype |-> "none", size |-> 0, refcode |-> <<>>,
             non_refalleles |-> <<>>, missingindices |-> {}]
NoDense == [a |-> <<>>, b |-> <<>>, c |-> <<>>, d |-> <<>>]
NoChrom == [genetic_map |-> <<>>, physical_map |-> <<>>, frequencies |-> <<>>]
NoCall == Call("none", FALSE, NoArg)
NoPedigree == <<>>

\* a container created empty, no copy_span call made on it yet: calls are
\* the ranges of the calls that returned, failed the range of the call that
\* raised (none: <<>>)
NoHistory == [created |-> "empty", calls |-> <<>>, failed |-> <<>>]

\* a container as founder_chromosome returns it
FounderHistory == [NoHistory EXCEPT !.created = "founder_chromosome"]

----------------------------------------------------------------------------
(* Calls on a LabelledAlleles: span bookkeeping *)

\* labelled.empty_like(): the calls go on on the new, empty container
EmptyLike ==
    /\ labelled' = empty_like(labelled)
    /\ history' = NoHistory
    /\ last' = Call("empty_like", FALSE, NoArg)
    /\ result' = NoValue
    /\ UNCHANGED <<genotypes, template, sparse, dense, chrom>>

\* labelled.add_span(new_span)
AddSpan(new_span) ==
    LET r == add_span(labelled.spans, new_span)
    IN  /\ Len(r.spans) <= MaxSpans
        /\ labelled' = [labelled EXCEPT !.spans = r.spans]
        /\ last' = Call("add_span", r.err,
                        [start |-> new_span.start, stop |-> new_span.stop,
                         case5 |-> 0])
        /\ result' = NoValue
        /\ UNCHANGED <<genotypes, template, history, sparse, dense, chrom>>

\* labelled.copy_span(tmpl, copy_start, copy_stop)
CopySpanFrom(tmpl, copy_start, copy_stop, max_spans) ==
    LET stop == CopyStop(copy_stop, labelled.nmark)
        r == labelled_copy_span(labelled.spans, tmpl, copy_start, stop)
    IN  /\ Len(r.spans) <= max_spans
        /\ labelled' = [labelled EXCEPT !.spans = r.spans]
        /\ last' = Call("copy_span", r.err,
                        [start |-> copy_start, stop |-> stop, case5 |-> r.case5])
        /\ result' = NoValue

InitSpans ==
    /\ genotypes = NoPedigree
    /\ labelled = LabelledAlleles(<<>>, NMark)
    /\ template = NoValue
    /\ history = NoHistory
    /\ sparse = NoSparse
    /\ dense = NoDense
    /\ chrom = NoChrom
    /\ last = NoCall
    /\ result = NoValue

AddSpanCall == \E new_span \in SpanInputs : AddSpan(new_span)

CopySpanCall ==
    \E tmpl \in TiledSources({<<"founder", 0>>})
                  \cup {DenseHaplotype("distinct", "founder", 0)},
       copy_start \in 0..NMark, copy_stop \in CopyStops :
        /\ CopySpanFrom(tmpl, copy_start, copy_stop, MaxSpans)
        /\ UNCHANGED <<genotypes, template, history, sparse, dense, chrom>>

NextSpans == EmptyLike \/ AddSpanCall \/ CopySpanCall

SpecSpans == InitSpans /\ [][NextSpans]_vars

----------------------------------------------------------------------------
(* Calls on a LabelledAlleles: recombination from one template, and delabel *)

\* two copy_span calls that split a tiled template at a span boundary leave
\* two zero-length spans beside the template's own
MaxCopySpans == NMark + 2

TemplateLabels == {<<"founder", 0>>, <<"child", 1>>}

InitCopy ==
    /\ genotypes \in {Pedigree("distinct", {}), Pedigree("diallelic", {}),
                      Pedigree("distinct", {1}), Pedigree("diallelic", {0, 1})}
    /\ labelled = LabelledAlleles(<<>>, NMark)
    /\ template \in TiledSources(TemplateLabels)
    /\ history = NoHistory
    /\ sparse = NoSparse
    /\ dense = NoDense
    /\ chrom = NoChrom
    /\ last = NoCall
    /\ result = NoValue

\* labelled = LabelledAlleles.founder_chromosome(ind, ChromIdx, hap, nmark=NMark)
FounderChromosome(ind, hap) ==
    /\ labelled' = founder_chromosome(ind, ChromIdx, hap, NMark)
    /\ history' = FounderHistory
    /\ last' = Call("founder_chromosome", FALSE, NoArg)
    /\ result' = NoValue
    /\ UNCHANGED <<genotypes, template, sparse, dense, chrom>>

FounderChromosomeCall ==
    \E ind \in Individuals, hap \in Haplotypes : FounderChromosome(ind, hap)

\* labelled.copy_span(template, copy_start, copy_stop) for a range of at
\* least one marker; the caller stops copying into a container once a call on
\* it has raised
CopyFromTemplate ==
    \E copy_start \in 0..NMark, copy_stop \in CopyStops :
        LET range == [start |-> copy_start,
                      stop |-> CopyStop(copy_stop, labelled.nmark)]
        IN  /\ range.start < range.stop
            /\ history.failed = <<>>
            /\ Len(history.calls) < MaxCopies
            /\ CopySpanFrom(template, copy_start, copy_stop, MaxCopySpans)
            /\ history' = IF last'.err
                          THEN [history EXCEPT !.failed = <<range>>]
                          ELSE [history EXCEPT !.calls = Append(@, range)]
            /\ UNCHANGED <<genotypes, template, sparse, dense, chrom>>

\* labelled.delabel()
Delabel ==
    LET r == delabel(labelled, genotypes)
    IN  /\ last' = Call("delabel", r.err, NoArg)
        /\ result' = r.c
        /\ UNCHANGED <<genotypes, labelled, template, history, sparse, dense, chrom>>

NextCopy == EmptyLike \/ FounderChromosomeCall \/ CopyFromTemplate \/ Delabel

SpecCopy == InitCopy /\ [][NextCopy]_vars

----------------------------------------------------------------------------
(* SparseAlleles *)

StrCodes == {"", "0", "1", "2"}

\* the arrays of 1..MaxLen entries over a code set
Arrays(codes) == UNION {[1..n -> codes] : n \in 1..MaxLen}

\* SparseAlleles.missingcode (and Alleles.missingcode)
missingcode(dtype) == IF dtype = "int" THEN 0 ELSE ""

\* the refcode SparseAlleles.__init__ takes when none is passed
DefaultRefcode(dtype) == IF dtype = "int" THEN 0 ELSE "0"

\* np.zeros(size, dtype=np.uint8).astype(dtype): one entry
ZeroEntry(dtype) == IF dtype = "int" THEN 0 ELSE "0"

\* SparseAlleles._array2nonref: index -> value where the data is neither
\* the reference code nor the missing code
array2nonref(data, refcode, missing) ==
    [i \in {j \in 1..Len(data) : data[j] # refcode /\ data[j] # missing}
        |-> data[i]]

\* SparseAlleles._array2missing: the indices holding the missing code
array2missing(data, missing) == {j \in 1..Len(data) : data[j] = missing}

\* SparseAlleles.__init__(data, refcode); refcode <<>> is None
SparseAlleles(data, dtype, refcode) ==
    LET ref == IF refcode # <<>> THEN refcode[1] ELSE DefaultRefcode(dtype)
    IN  [dtype |-> dtype, size |-> Len(data), refcode |-> <<ref>>,
         non_refalleles |-> array2nonref(data, ref, missingcode(dtype)),
         missingindices |-> array2missing(data, missingcode(dtype))]

\* SparseAlleles.todense: zeros, then the non-reference alleles, then the
\* missing code at the missing indices
todense(sp) ==
    Alleles([i \in 1..sp.size |->
                IF i \in sp.missingindices THEN missingcode(sp.dtype)
                ELSE IF i \in DOMAIN sp.non_refalleles THEN sp.non_refalleles[i]
                ELSE ZeroEntry(sp.dtype)])

InitSparse ==
    /\ genotypes = NoPedigree
    /\ labelled = NoValue
    /\ template = NoValue
    /\ history = NoHistory
    /\ sparse = NoSparse
    /\ dense = NoDense
    /\ chrom = NoChrom
    /\ last = NoCall
    /\ result = NoValue

\* sparse = SparseAlleles(data, refcode=refcode)
NewSparse(data, dtype, refcode) ==
    /\ sparse' = SparseAlleles(data, dtype, refcode)
    /\ dense' = [NoDense EXCEPT !.a = data]
    /\ last' = Call("SparseAlleles", FALSE, NoArg)
    /\ result' = NoValue
    /\ UNCHANGED <<genotypes, labelled, template, history, chrom>>

NewSparseInt ==
    \E data \in Arrays(AlleleCodes),
       refcode \in {<<>>} \cup {<<c>> : c \in AlleleCodes} :
        NewSparse(data, "int", refcode)

NewSparseStr ==
    \E data \in Arrays(StrCodes),
       refcode \in {<<>>} \cup {<<c>> : c \in StrCodes} :
        NewSparse(data, "str", refcode)

\* sparse.todense()
ToDense ==
    /\ sparse # NoSparse
    /\ last' = Call("todense", FALSE, NoArg)
    /\ result' = todense(sparse)
    /\ UNCHANGED <<genotypes, labelled, template, history, sparse, dense, chrom>>

NextSparse == NewSparseInt \/ NewSparseStr \/ ToDense

SpecSparse == InitSparse /\ [][NextSparse]_vars

----------------------------------------------------------------------------
(* Identity by state *)

\* the default of get_ibs_states' and chromwide_ibs' missingval
DefaultMissingval == 64

\* Alleles.missing: the markers holding the missing code
missing(a) == {i \in 1..Len(a) : a[i] = missingcode("int")}

\* arr[mask] = val on a uint8 array: val is stored in 8 bits
MaskAssign(arr, mask, val) ==
    [i \in 1..Len(arr) |-> IF i \in mask THEN val % 256 ELSE arr[i]]

\* x == y on two arrays: the markers where they agree
EqMask(x, y) == {i \in 1..Len(x) : x[i] = y[i]}

\* chromwide_ibs with the ibs1 assignment made after the ibs2 assignment
chromwide_ibs_reordered(a, b, c, d, missingval) ==
    LET a_eq_c == EqMask(a, c)
        a_eq_d == EqMask(a, d)
        b_eq_c == EqMask(b, c)
        b_eq_d == EqMask(b, d)
        miss == missing(a) \cup missing(b) \cup missing(c) \cup missing(d)
        ibs1 == a_eq_c \cup a_eq_d \cup b_eq_c \cup b_eq_d
        ibs2 == (a_eq_c \cap b_eq_d) \cup (a_eq_d \cap b_eq_c)
        zeros == [i \in 1..Len(a) |-> 0]
    IN  MaskAssign(MaskAssign(MaskAssign(zeros, ibs2, 2), ibs1, 1),
                   miss, missingval)

\* chromwide_ibs(a, b, c, d, missingval): zeros, then 1 where ibs1, then 2
\* where ibs2, then missingval where a haplotype is missing
chromwide_ibs(a, b, c, d, missingval) ==
    LET a_eq_c == EqMask(a, c)
        a_eq_d == EqMask(a, d)
        b_eq_c == EqMask(b, c)
        b_eq_d == EqMask(b, d)
        miss == missing(a) \cup missing(b) \cup missing(c) \cup missing(d)
        ibs1 == a_eq_c \cup a_eq_d \cup b_eq_c \cup b_eq_d
        ibs2 == (a_eq_c \cap b_eq_d) \cup (a_eq_d \cap b_eq_c)
        zeros == [i \in 1..Len(a) |-> 0]
    IN  MaskAssign(MaskAssign(MaskAssign(zeros, ibs1, 1), ibs2, 2),
                   miss, missingval)

\* get_ibs_states(ind1, ind2, chromosome_index, missingval): raises unless
\* 0 <= missingval <= 255
get_ibs_states(d, missingval) ==
    IF ~(0 <= missingval /\ missingval <= 255)
    THEN [c |-> NoValue, err |-> TRUE]
    ELSE [c |-> [kind |-> "ndarray",
                 vals |-> chromwide_ibs(d.a, d.b, d.c, d.d, missingval),
                 spans |-> <<>>, nmark |-> Len(d.a)],
          err |-> FALSE]

Missingvals == {-1, 0, 2, DefaultMissingval, 255, 256}

InitIbs ==
    /\ genotypes = NoPedigree
    /\ labelled = NoValue
    /\ template = NoValue
    /\ history = NoHistory
    /\ sparse = NoSparse
    /\ dense = NoDense
    /\ chrom = NoChrom
    /\ last = NoCall
    /\ result = NoValue

\* both individuals are genotyped at one more marker
Genotype ==
    \E ca \in AlleleCodes, cb \in AlleleCodes,
       cc \in AlleleCodes, cd \in AlleleCodes :
        /\ Len(dense.a) < MaxHapLen
        /\ dense' = [a |-> Append(dense.a, ca), b |-> Append(dense.b, cb),
                     c |-> Append(dense.c, cc), d |-> Append(dense.d, cd)]
        /\ last' = Call("genotype", FALSE, NoArg)
        /\ result' = NoValue
        /\ UNCHANGED <<genotypes, labelled, template, history, sparse, chrom>>

\* get_ibs_states(ind1, ind2, ChromIdx, missingval=missingval)
GetIbsStates ==
    \E missingval \in Missingvals :
        LET r == get_ibs_states(dense, missingval)
        IN  /\ Len(dense.a) > 0
            /\ last' = Call("get_ibs_states", r.err,
                            [start |-> missingval, stop |-> 0, case5 |-> 0])
            /\ result' = r.c
            /\ UNCHANGED <<genotypes, labelled, template, history, sparse,
                           dense, chrom>>

NextIbs == Genotype \/ GetIbsStates

SpecIbs == InitIbs /\ [][NextIbs]_vars

----------------------------------------------------------------------------
(* ChromosomeTemplate *)

\* the frequency add_genotype stores for a marker given without one: -1
UnsetFrequency == -100

Positions == {0, 2, 3}
Queries == (-1)..4
Frequencies == {50}
Draws == {0, 99}

\* ChromosomeTemplate.nmark
nmark(t) == Len(t.genetic_map)

\* ChromosomeTemplate.add_genotype(frequency, map_position, bp=bp);
\* frequency <<>> is None, and a frequency float() cannot parse raises
add_genotype(t, frequency, parsable, map_position, bp) ==
    IF frequency # <<>> /\ ~parsable THEN [t |-> t, err |-> TRUE]
    ELSE [t |-> [genetic_map |-> Append(t.genetic_map, map_position),
                 physical_map |-> Append(t.physical_map, bp),
                 frequencies |->
                     Append(t.frequencies,
                            IF frequency # <<>> THEN frequency[1]
                            ELSE UnsetFrequency)],
          err |-> FALSE]

\* ChromosomeTemplate.set_frequency: self.frequencies[position] = frequency;
\* a negative position counts from the end, one out of range raises
set_frequency(t, position, frequency) ==
    LET n == Len(t.frequencies)
        idx == IF position < 0 THEN position + n ELSE position
    IN  IF idx < 0 \/ idx >= n THEN [t |-> t, err |-> TRUE]
        ELSE [t |-> [t EXCEPT !.frequencies[idx + 1] = frequency],
              err |-> FALSE]

\* bisect.bisect_right(a, x, lo, hi)
RECURSIVE bisect_right(_, _, _, _)
bisect_right(a, x, lo, hi) ==
    IF lo < hi
    THEN LET mid == (lo + hi) \div 2
         IN  IF x < a[mid + 1] THEN bisect_right(a, x, lo, mid)
             ELSE bisect_right(a, x, mid + 1, hi)
    ELSE lo

\* mp[idx] on a Python list: a negative index counts from the end
ListItem(mp, idx) == IF idx < 0 THEN mp[idx + Len(mp) + 1] ELSE mp[idx + 1]

Abs(x) == IF x < 0 THEN -x ELSE x

\* ChromosomeTemplate.closest_marker(position, map_type): the index returned
closest_marker(t, position, map_type) ==
    IF map_type \notin {"physical", "genetic"} THEN [idx |-> 0, err |-> TRUE]
    ELSE LET mp == IF map_type = "physical" THEN t.physical_map
                   ELSE t.genetic_map
             left_idx == bisect_right(mp, position, 0, Len(mp)) - 1
             right_idx == left_idx + 1
         IN  IF left_idx = nmark(t) - 1 THEN [idx |-> left_idx, err |-> FALSE]
             ELSE IF Abs(ListItem(mp, right_idx) - position)
                        < Abs(ListItem(mp, left_idx) - position)
             THEN [idx |-> right_idx, err |-> FALSE]
             ELSE [idx |-> left_idx, err |-> FALSE]

\* np.array(r < self.frequencies, dtype=np.uint8) + 1 for one row of draws
DrawAlleles(t, r) ==
    [i \in 1..nmark(t) |-> IF r[i] < t.frequencies[i] THEN 2 ELSE 1]

\* ChromosomeTemplate.linkageequilibrium_chromosome with the draws r
linkageequilibrium_chromosome(t, r) ==
    IF \E i \in 1..Len(t.frequencies) : t.frequencies[i] < 0
    THEN [c |-> NoValue, err |-> TRUE]
    ELSE [c |-> Alleles(DrawAlleles(t, r)), err |-> FALSE]

\* ChromosomeTemplate.linkageequilibrium_chromosomes(nchrom) with the draws
\* chroms (nchrom rows): a list of Alleles
linkageequilibrium_chromosomes(t, nchrom, chroms) ==
    [c |-> [kind |-> "list",
            vals |-> [k \in 1..nchrom |-> Alleles(DrawAlleles(t, chroms[k]))],
            spans |-> <<>>, nmark |-> nmark(t)],
     err |-> FALSE]

InitTemplate ==
    /\ genotypes = NoPedigree
    /\ labelled = NoValue
    /\ template = NoValue
    /\ history = NoHistory
    /\ sparse = NoSparse
    /\ dense = NoDense
    /\ chrom = NoChrom
    /\ last = NoCall
    /\ result = NoValue

\* chrom.add_genotype(frequency, map_position, bp=bp)
AddGenotype ==
    \E frequency \in {<<>>} \cup {<<f>> : f \in Frequencies},
       parsable \in BOOLEAN,
       map_position \in Positions, bp \in Positions :
        LET r == add_genotype(chrom, frequency, parsable, map_position, bp)
        IN  /\ nmark(r.t) <= MaxMarkers
            /\ chrom' = r.t
            /\ last' = Call("add_genotype", r.err, NoArg)
            /\ result' = NoValue
            /\ UNCHANGED <<genotypes, labelled, template, history, sparse, dense>>

\* chrom.set_frequency(position, frequency)
SetFrequency ==
    \E position \in (-1)..nmark(chrom), frequency \in Frequencies :
        LET r == set_frequency(chrom, position, frequency)
        IN  /\ chrom' = r.t
            /\ last' = Call("set_frequency", r.err, NoArg)
            /\ result' = NoValue
            /\ UNCHANGED <<genotypes, labelled, template, history, sparse, dense>>

\* chrom.closest_marker(position, map_type)
ClosestMarker ==
    \E position \in Queries, map_type \in {"physical", "genetic", "other"} :
        LET r == closest_marker(chrom, position, map_type)
        IN  /\ last' = Call("closest_marker_" \o map_type, r.err,
                            [start |-> position, stop |-> 0, case5 |-> 0])
            /\ result' = [kind |-> "int", vals |-> <<r.idx>>, spans |-> <<>>,
                          nmark |-> 0]
            /\ UNCHANGED <<genotypes, labelled, template, history, sparse,
                           dense, chrom>>

\* chrom.linkageequilibrium_chromosome()
LinkageEquilibriumChromosome ==
    \E r \in [1..nmark(chrom) -> Draws] :
        LET c == linkageequilibrium_chromosome(chrom, r)
        IN  /\ last' = Call("linkageequilibrium_chromosome", c.err, NoArg)
            /\ result' = c.c
            /\ UNCHANGED <<genotypes, labelled, template, history, sparse,
                           dense, chrom>>

\* chrom.linkageequilibrium_chromosomes(nchrom)
LinkageEquilibriumChromosomes ==
    \E nchrom \in {1, 2} :
        \E chroms \in [1..nchrom -> [1..nmark(chrom) -> Draws]] :
            LET c == linkageequilibrium_chromosomes(chrom, nchrom, chroms)
            IN  /\ last' = Call("linkageequilibrium_chromosomes", c.err, NoArg)
                /\ result' = c.c
                /\ UNCHANGED <<genotypes, labelled, template, history, sparse,
                               dense, chrom>>

NextTemplate ==
    \/ AddGenotype
    \/ SetFrequency
    \/ ClosestMarker
    \/ LinkageEquilibriumChromosome
    \/ LinkageEquilibriumChromosomes

SpecTemplate == InitTemplate /\ [][NextTemplate]_vars

----------------------------------------------------------------------------
(* Indexing and comparing LabelledAlleles *)

\* InheritanceSpan.ancestral_allele: AncestralAllele(ancestor, haplotype)
ancestral_allele(span) ==
    [kind |-> "AncestralAllele", vals |-> <<span.ancestor, span.haplotype>>,
     spans |-> <<>>, nmark |-> 0]

\* LabelledAlleles.__getitem__ from span i on: the ancestral allele of the
\* first span that contains the index; raises when none does
RECURSIVE GetItemLoop(_, _, _)
GetItemLoop(spans, i, index) ==
    IF i > Len(spans) THEN [c |-> NoValue, err |-> TRUE]
    ELSE IF contains(spans[i], index)
    THEN [c |-> ancestral_allele(spans[i]), err |-> FALSE]
    ELSE GetItemLoop(spans, i + 1, index)

\* LabelledAlleles.__getitem__(index)
getitem(self, index) == GetItemLoop(self.spans, 1, index)

\* InheritanceSpan.__eq__
span_eq(x, y) ==
    /\ x.ancestor = y.ancestor
    /\ x.chromosomeidx = y.chromosomeidx
    /\ x.haplotype = y.haplotype
    /\ x.start = y.start
    /\ x.stop = y.stop

\* LabelledAlleles.__eq__: all(x == y for x, y in izip(self.spans,
\* other.spans)); izip stops at the end of the shorter list
labelled_eq(self, other) ==
    IF other.kind # "LabelledAlleles" THEN FALSE
    ELSE \A i \in 1..Len(self.spans) :
            i <= Len(other.spans) => span_eq(self.spans[i], other.spans[i])

InitIndex ==
    /\ genotypes = Pedigree("distinct", {})
    /\ labelled = LabelledAlleles(<<>>, NMark)
    /\ template \in TiledSources(TemplateLabels)
                      \cup {DenseHaplotype("distinct", "founder", 0)}
    /\ history = NoHistory
    /\ sparse = NoSparse
    /\ dense = NoDense
    /\ chrom = NoChrom
    /\ last = NoCall
    /\ result = NoValue

\* labelled.add_span(span) for a span made like one of the template's
AddTemplateSpan ==
    \E i \in 1..Len(template.spans) :
        LET span == template.spans[i]
        IN  AddSpan(InheritanceSpan(span.ancestor, span.chromosomeidx,
                                    span.haplotype, span.start, span.stop))

\* labelled.copy_span(template, copy_start, copy_stop)
CopyTemplateSpan ==
    \E copy_start \in 0..NMark, copy_stop \in CopyStops :
        /\ CopySpanFrom(template, copy_start, copy_stop, MaxCopySpans)
        /\ UNCHANGED <<genotypes, template, history, sparse, dense, chrom>>

\* labelled[index]
GetItem ==
    \E index \in (-1)..(NMark + 1) :
        LET r == getitem(labelled, index)
        IN  /\ last' = Call("getitem", r.err,
                            [start |-> index, stop |-> 0, case5 |-> 0])
            /\ result' = r.c
            /\ UNCHANGED <<genotypes, labelled, template, history, sparse,
                           dense, chrom>>

\* labelled == template
Equals ==
    /\ last' = Call("eq", FALSE, NoArg)
    /\ result' = [kind |-> "bool", vals |-> <<labelled_eq(labelled, template)>>,
                  spans |-> <<>>, nmark |-> 0]
    /\ UNCHANGED <<genotypes, labelled, template, history, sparse, dense, chrom>>

NextIndex ==
    EmptyLike \/ AddTemplateSpan \/ CopyTemplateSpan \/ GetItem \/ Equals

SpecIndex == InitIndex /\ [][NextIndex]_vars

----------------------------------------------------------------------------
(* Properties of the symbolic containers *)

\* a span list tiles a prefix of the chromosome: it starts at 0, every span
\* has positive length, and each span starts where the one before it stops
TilesPrefix(spans) ==
    /\ Len(spans) > 0 => spans[1].start = 0
    /\ \A i \in 1..Len(spans) : spans[i].start < spans[i].stop
    /\ \A i \in 2..Len(spans) : spans[i].start = spans[i - 1].stop

\* C1: whatever add_span and copy_span calls were made (rejected ones
\* included), the span list tiles a prefix of [0, NMark): first start 0, every
\* span of positive length, each start equal to the previous stop.
C1_SpansTilePrefix == TilesPrefix(labelled.spans)

\* the start of the span given to add_span is not where the span list ends
BadStart(spans, start) ==
    \/ Len(spans) = 0 /\ start # 0
    \/ Len(spans) > 0 /\ start # spans[Len(spans)].stop

\* C7: add_span raises and leaves the span list unchanged whenever the new
\* span does not start at 0 (empty list, negative starts included) or does
\* not start at the last span's stop (non-empty list).
C7_AddSpanRejectsBadStart ==
    [][(last'.op = "add_span" /\ BadStart(labelled.spans, last'.arg.start))
          => (last'.err /\ labelled' = labelled)]_vars

\* the template's spans tile all of [0, NMark) and all resolve to dense
\* containers
TemplateTiledConcrete ==
    /\ template.kind = "LabelledAlleles"
    /\ TilesPrefix(template.spans)
    /\ Len(template.spans) > 0
    /\ template.spans[Len(template.spans)].stop = NMark
    /\ \A i \in 1..Len(template.spans) :
          ancestral_chromosome(template.spans[i], genotypes).kind = "Alleles"

Range(start, stop) == [start |-> start, stop |-> stop]

\* the copy_span calls made so far, the one that raised (if any) last
Attempted == history.calls \o history.failed

\* labelled was created empty
CreatedEmpty == history.created = "empty"

IsPrefix(s, t) == Len(s) <= Len(t) /\ \A i \in 1..Len(s) : s[i] = t[i]

\* delabel of a fresh container filled by one copy_span of [0, NMark)
SingleCopyDelabel ==
    LET r == labelled_copy_span(<<>>, template, 0, NMark)
    IN  [copy_err |-> r.err,
         d |-> delabel(LabelledAlleles(r.spans, NMark), genotypes)]

\* C2: from a tiled template with concrete ancestors, copy_span [0,b) then
\* [b,NMark) into an empty container (0 < b < NMark) and delabel gives the
\* alleles that copy_span [0,NMark) and delabel gives, and no call raises.
C2_SplitCopyAgrees ==
    TemplateTiledConcrete =>
        \A b \in 1..(NMark - 1) :
            LET split == <<Range(0, b), Range(b, NMark)>>
                whole == <<Range(0, NMark)>>
            IN  /\ (/\ CreatedEmpty
                    /\ IsPrefix(Attempted, split) \/ IsPrefix(Attempted, whole))
                      => history.failed = <<>>
                /\ (/\ CreatedEmpty
                    /\ history.calls \in {split, whole}
                    /\ last.op = "delabel")
                      => /\ ~last.err
                         /\ ~SingleCopyDelabel.copy_err
                         /\ ~SingleCopyDelabel.d.err
                         /\ result.kind = "Alleles"
                         /\ result = SingleCopyDelabel.d.c

C2_Witness ==
    /\ TemplateTiledConcrete
    /\ Len(template.spans) = 2
    /\ template.spans[1].ancestor # template.spans[2].ancestor
    /\ CreatedEmpty
    /\ history.calls = <<Range(0, template.spans[1].stop),
                         Range(template.spans[1].stop, NMark)>>
    /\ last.op = "delabel"
    /\ ~last.err
    /\ result.kind = "Alleles"

\* C3: delabel raises whenever some span of the container resolves to a
\* container that is still a LabelledAlleles; it returns nothing then.
C3_DelabelRaisesOnSymbolicAncestor ==
    (/\ last.op = "delabel"
     /\ \E i \in 1..Len(labelled.spans) :
           ancestral_chromosome(labelled.spans[i], genotypes).kind
               = "LabelledAlleles")
        => (last.err /\ result = NoValue)

\* C9: delabel of the container founder_chromosome returned for an ancestor
\* whose haplotype is dense returns a dense container equal to the ancestor's
\* at every marker, and the ancestor's container is unchanged.
C9_FounderDelabelEqualsAncestor ==
    [][(/\ last.op = "founder_chromosome"
        /\ last'.op = "delabel"
        /\ ancestral_chromosome(labelled.spans[1], genotypes).kind = "Alleles")
          => LET anc == ancestral_chromosome(labelled.spans[1], genotypes)
             IN  /\ ~last'.err
                 /\ result'.kind = "Alleles"
                 /\ result'.nmark = NMark
                 /\ \A i \in 1..NMark : result'.vals[i] = anc.vals[i]
                 /\ genotypes' = genotypes]_vars

C9_Witness ==
    /\ last.op = "delabel"
    /\ ~last.err
    /\ history = FounderHistory
    /\ labelled = founder_chromosome("child", ChromIdx, 1, NMark)
    /\ result = genotypes["child"][1]
    /\ result.kind = "Alleles"

\* some marker of the half-open range [copy_start, copy_stop) lies in the
\* half-open range of the span
Overlaps(span, copy_start, copy_stop) ==
    \E m \in copy_start..(copy_stop - 1) : span.start <= m /\ m < span.stop

\* C10: when copy_span from a tiled template with copy_start < copy_stop
\* returns early in branch 5, no template span after the current one holds a
\* marker of [copy_start, copy_stop).
C10_EarlyReturnSkipsNothing ==
    (/\ last.op = "copy_span"
     /\ last.arg.case5 > 0
     /\ last.arg.start < last.arg.stop
     /\ TilesPrefix(template.spans))
        => \A j \in (last.arg.case5 + 1)..Len(template.spans) :
              ~Overlaps(template.spans[j], last.arg.start, last.arg.stop)

C10_Witness ==
    /\ last.op = "copy_span"
    /\ ~last.err
    /\ last.arg.case5 > 0
    /\ last.arg.case5 < Len(template.spans)
    /\ last.arg.start < last.arg.stop
    /\ TilesPrefix(template.spans)

----------------------------------------------------------------------------
(* Properties of the sparse container and of the IBS comparator *)

\* C4: todense() of the SparseAlleles built from an array returns the array,
\* at every index, whichever reference code was passed.
C4_SparseRoundTrip ==
    last.op = "todense" =>
        /\ result.nmark = Len(dense.a)
        /\ \A i \in 1..Len(dense.a) : result.vals[i] = dense.a[i]

\* C5: chromwide_ibs gives, at each marker: the sentinel if a, b, c or d is
\* missing there; else 2 if (a=c and b=d) or (a=d and b=c); else 1 if any of
\* a=c, a=d, b=c, b=d; else 0.
C5_IbsStates ==
    (last.op = "get_ibs_states" /\ ~last.err) =>
        /\ result.nmark = Len(dense.a)
        /\ \A i \in 1..Len(dense.a) :
             LET a == dense.a[i]
                 b == dense.b[i]
                 c == dense.c[i]
                 d == dense.d[i]
             IN  result.vals[i] =
                   IF a = 0 \/ b = 0 \/ c = 0 \/ d = 0 THEN last.arg.start
                   ELSE IF (a = c /\ b = d) \/ (a = d /\ b = c) THEN 2
                   ELSE IF a = c \/ a = d \/ b = c \/ b = d THEN 1
                   ELSE 0

\* a heterozygous genotype shared in the crossed orientation (a=d, b=c)
C5_Witness ==
    /\ last.op = "get_ibs_states"
    /\ ~last.err
    /\ last.arg.start = 0
    /\ dense.a = <<1>> /\ dense.b = <<2>> /\ dense.c = <<2>> /\ dense.d = <<1>>
    /\ result.vals = <<2>>

----------------------------------------------------------------------------
(* Properties of the chromosome template *)

StrictlyIncreasing(mp) == \A i \in 1..(Len(mp) - 1) : mp[i] < mp[i + 1]

\* the map closest_marker was called on, <<>> for an unknown map type
QueriedMap ==
    IF last.op = "closest_marker_physical" THEN chrom.physical_map
    ELSE IF last.op = "closest_marker_genetic" THEN chrom.genetic_map
    ELSE <<>>

\* C6: on a map of N >= 1 strictly increasing positions closest_marker
\* returns an index in 0..N-1 of a marker at minimum distance from the query,
\* the lower index of two equidistant markers.
C6_ClosestMarker ==
    (/\ last.op \in {"closest_marker_physical", "closest_marker_genetic"}
     /\ Len(QueriedMap) >= 1
     /\ StrictlyIncreasing(QueriedMap))
        => LET mp == QueriedMap
               q == last.arg.start
               k == result.vals[1]
           IN  /\ ~last.err
               /\ k \in 0..(Len(mp) - 1)
               /\ \A j \in 1..Len(mp) : Abs(mp[k + 1] - q) <= Abs(mp[j] - q)
               /\ \A j \in 1..Len(mp) :
                     Abs(mp[j] - q) = Abs(mp[k + 1] - q) => k + 1 <= j

\* C8: with a marker whose frequency is still unset, both
\* linkageequilibrium_chromosome and linkageequilibrium_chromosomes raise
\* instead of returning haplotypes.
C8_UnsetFrequencyRaises ==
    (/\ last.op \in {"linkageequilibrium_chromosome",
                     "linkageequilibrium_chromosomes"}
     /\ \E i \in 1..Len(chrom.frequencies) :
           chrom.frequencies[i] = UnsetFrequency)
        => (last.err /\ result = NoValue)

----------------------------------------------------------------------------
(* Properties of indexing and comparing *)

\* the spans tile all of [0, NMark)
TilesAll(spans) ==
    /\ Len(spans) > 0
    /\ TilesPrefix(spans)
    /\ spans[Len(spans)].stop = NMark

\* C11: on a container whose two or more spans tile [0, NMark), indexing at
\* marker i returns the (ancestor, haplotype) of the span whose half-open
\* range holds i, the haplotype delabel copies marker i from; also when i is
\* the boundary of two adjacent spans.
C11_GetItemHalfOpenSpan ==
    (/\ last.op = "getitem"
     /\ last.arg.start \in 0..(NMark - 1)
     /\ TilesAll(labelled.spans)
     /\ Len(labelled.spans) >= 2)
        => /\ ~last.err
           /\ result.kind = "AncestralAllele"
           /\ \E k \in 1..Len(labelled.spans) :
                 /\ labelled.spans[k].start <= last.arg.start
                 /\ last.arg.start < labelled.spans[k].stop
                 /\ result.vals = <<labelled.spans[k].ancestor,
                                    labelled.spans[k].haplotype>>
           /\ delabel(labelled, genotypes).c.vals[last.arg.start + 1]
                 = genotypes[result.vals[1]][result.vals[2]]
                       .vals[last.arg.start + 1]

\* C12: two LabelledAlleles compare equal exactly when their span lists have
\* the same length and equal spans at every position; an empty or strictly
\* shorter prefix list is not equal to the longer one.
C12_EqualIffSameSpans ==
    (last.op = "eq" /\ template.kind = "LabelledAlleles")
        => (result.vals[1]
              <=> /\ Len(labelled.spans) = Len(template.spans)
                  /\ \A i \in 1..Len(labelled.spans) :
                        labelled.spans[i] = template.spans[i])

============================================================================
